---- MODULE Spec2Model ----
(***************************************************************************)
(* Monte-Carlo search for the trajectory of minimum optical path length    *)
(* (MC_Optics.py).                                                         *)
(*                                                                         *)
(* Numbers.  The program computes in floating point.  Here positions (x,   *)
(* y, dx) live on a fixed-point grid of unit 1, a square root is rounded   *)
(* down to a multiple of 1/Prec, the refractive indices are kept in tenths *)
(* (na = 1.0 -> 10, nb = 1.5 -> 15) and delta is an exact rational         *)
(* [num, den].  The sum yc + normal()*delta is rounded to the grid.        *)
(* Indices are the program's: arrays are functions on 0..N-1.              *)
(***************************************************************************)
EXTENDS Integers, FiniteSets, Sequences, TLC

VARIABLES
    cfg,      \* the configuration: N, xf, delta, iterlimit (lines 51, 54, 148, 154)
    x,        \* array of xs (line 58)
    y,        \* array of current ys (lines 59-61, 117)
    dx,       \* x[1]-x[0] (line 62)
    delta,    \* size of the y change, a rational [num, den] (lines 148, 159)
    changed,  \* result of the last niterate call (lines 150, 157)
    ix,       \* niterate's local: the index picked by the last call (line 90)
    yc,       \* niterate's local: the bumped middle value of the last call (line 96)
    size,     \* lines 150, 161
    oldsize,  \* lines 151, 160
    count,    \* lines 152, 164
    dcount,   \* lines 153, 163
    accepted, \* history: some step inside the loop has been accepted
    pc        \* "preloop" (line 150), "loop" (line 156), "done" (line 166), "error"

vars == <<cfg, x, y, dx, delta, changed, ix, yc, size, oldsize, count, dcount, accepted, pc>>

---------------------------------------------------------------------------
(* Bounds of the model *)

NPts == 4        \* number of points of a valid configuration (15 in the program)
YEnd == 3        \* the end value yf of a valid configuration (10 in the program)
MaxIter == 6     \* largest iteration cap (100000 in the program)
MaxZ == 3        \* normal() is drawn from -MaxZ..MaxZ
Prec == 10       \* a square root is kept to 1/Prec

(* Program constants *)

x0 == 0
y0 == 0
XEnd == 10
na == 10
nb == 15
InvEps == 100000

N == cfg.N
xf == cfg.xf
yf == YEnd
iterlimit == cfg.iterlimit

---------------------------------------------------------------------------
(* Arithmetic helpers *)

Abs(a) == IF a < 0 THEN -a ELSE a

\* a/b rounded to the nearest integer (b > 0), halves away from zero
RoundDiv(a, b) == IF a >= 0 THEN (2 * a + b) \div (2 * b)
                            ELSE -((2 * (-a) + b) \div (2 * b))

RECURSIVE ISqrtIter(_, _, _)
ISqrtIter(v, lo, hi) ==
    IF lo >= hi THEN lo
    ELSE LET mid == (lo + hi + 1) \div 2
         IN  IF mid * mid <= v THEN ISqrtIter(v, mid, hi)
                               ELSE ISqrtIter(v, lo, mid - 1)

\* The square root of v in units of 1/Prec, rounded down
FixedSqrt(v) == ISqrtIter(v * Prec * Prec, 0, (v + 1) * Prec)

\* The square roots of the small arguments, computed once
SqrtTable == [v \in 0 .. (4 * XEnd * XEnd) |-> FixedSqrt(v)]

\* sqrt(v)
sqrt(v) == IF v \in DOMAIN SqrtTable THEN SqrtTable[v] ELSE FixedSqrt(v)

\* linspace(a, b, n)[i]
linspace(a, b, n, i) == IF i = n - 1 THEN b ELSE a + RoundDiv(i * (b - a), n - 1)

---------------------------------------------------------------------------
(* The example index function *)

\* x < xb with xb = (x0+xf)/2.0
nf_step(xv) == IF 2 * xv < x0 + xf THEN na ELSE nb

---------------------------------------------------------------------------
(* The Monte-Carlo step *)

\* range(1,N-1)
Interior(n) == 1 .. (n - 2)

NormalSamples == (-MaxZ) .. MaxZ

\* normal()*delta, rounded to the grid
Bump(z, d) == RoundDiv(z * d.num, d.den)

\* sqrt((ya-yc)**2+dx**2)*nf(x[ix-1]) + sqrt((yc-yb)**2+dx**2)*nf(x[ix])
OPL(xs, ya, ycv, yb, d, i) ==
    sqrt((ya - ycv) * (ya - ycv) + d * d) * nf_step(xs[i - 1])
  + sqrt((ycv - yb) * (ycv - yb) + d * d) * nf_step(xs[i])

\* if opf<opi
AcceptsOrEqual(opf, opi) == opf <= opi
Accepts(opf, opi) == opf < opi

\* y[ix] = yc
CommitRight(ys, i, v) == [ys EXCEPT ![i + 1] = v]
Commit(ys, i, v) == [ys EXCEPT ![i] = v]

RECURSIVE SumAbsDiff(_, _, _)
SumAbsDiff(ys, i, last) ==
    IF i >= last THEN 0
    ELSE Abs(ys[i + 1] - ys[i]) + SumAbsDiff(ys, i + 1, last)

\* abs(y[1:]-y[:-1]).sum()
ProgressMetricShort(ys, n) == SumAbsDiff(ys, 0, n - 2)
ProgressMetric(ys, n) == SumAbsDiff(ys, 0, n - 1)

\* The trajectory whose metric niterate returns
ReturnedStale(ys, ynew) == ys
Returned(ys, ynew) == ynew

\* niterate(x,y,nf,delta) with ix = i and normal() = z
niterate(xs, ys, n, d, dl, i, z) ==
    LET ya  == ys[i - 1]
        yb  == ys[i + 1]
        opi == OPL(xs, ya, ys[i], yb, d, i)
        ycn == ys[i] + Bump(z, dl)
        opf == OPL(xs, ya, ycn, yb, d, i)
        ch  == Accepts(opf, opi)
        yn  == IF ch THEN Commit(ys, i, ycn) ELSE ys
    IN  [changed |-> ch, y |-> yn, yc |-> ycn,
         size |-> ProgressMetric(Returned(ys, yn), n)]

---------------------------------------------------------------------------
(* The relaxation driver *)

\* (dcount < 0.2*iterlimit) and (count < iterlimit)
LoopGuardOffByOne == 5 * dcount < iterlimit /\ count <= iterlimit
LoopGuardCapOnly == count < iterlimit
LoopGuard == 5 * dcount < iterlimit /\ count < iterlimit

\* 0.4*newsize/N
NewDelta(newsize) == [num |-> 2 * newsize, den |-> 5 * N]

\* (oldsize-size) < 1e-5, with oldsize = size and size = newsize
Tiny(d) == InvEps * d < 1

\* delta after the body of the loop
DeltaAfterAlways(ch, newsize) == NewDelta(newsize)
DeltaAfter(ch, newsize) == IF ch THEN NewDelta(newsize) ELSE delta

\* dcount after the body of the loop
DcountAfterReset(ch, newsize) ==
    IF ch THEN (IF Tiny(size - newsize) THEN dcount + 1 ELSE 0) ELSE dcount
DcountAfterAny(ch, newsize) ==
    IF Tiny(size - newsize) THEN dcount + 1 ELSE dcount
DcountAfter(ch, newsize) ==
    IF ch /\ Tiny(size - newsize) THEN dcount + 1 ELSE dcount

---------------------------------------------------------------------------
(* Initial states: lines 51-62, 117 and 148 have run *)

\* y=zeros(N); y[0]=y0; y[-1]=yf; y[1:-1] = y0 + (yf-y0)*rand(N-2)
Trajectory(n, inner) ==
    [i \in 0 .. (n - 1) |-> IF i = 0 THEN y0 ELSE IF i = n - 1 THEN yf ELSE inner[i]]

\* The state in which line 150 finds the program, for the configuration c;
\* rand() in [0, 1) puts an interior point on any grid value in [y0, yf)
InitWith(c) ==
    /\ cfg = c
    /\ x = [i \in 0 .. (c.N - 1) |-> linspace(x0, c.xf, c.N, i)]
    /\ \E inner \in [Interior(c.N) -> y0 .. (yf - 1)] : y = Trajectory(c.N, inner)
    /\ dx = linspace(x0, c.xf, c.N, 1) - linspace(x0, c.xf, c.N, 0)
    /\ delta = c.delta
    /\ changed = FALSE
    /\ ix = 0
    /\ yc = 0
    /\ size = 0
    /\ oldsize = 0
    /\ count = 0
    /\ dcount = 0
    /\ accepted = FALSE
    /\ pc = "preloop"

\* delta = 1
InitialDelta == [num |-> 1, den |-> 1]

\* The iteration caps of the valid configurations
IterLimits == {1, MaxIter \div 2, MaxIter}

\* The valid configurations
Configurations ==
    [N : {NPts}, xf : {XEnd}, delta : {InitialDelta}, iterlimit : IterLimits]

Init == \E c \in Configurations : InitWith(c)

\* changed, size = niterate(x,y,nf_step,delta); oldsize=2*size; count = 0; dcount=0
FirstStep ==
    /\ pc = "preloop"
    /\ N >= 3
    /\ \E i \in Interior(N), z \in NormalSamples :
          \E r \in {niterate(x, y, N, dx, delta, i, z)} :
              /\ y' = r.y
              /\ changed' = r.changed
              /\ ix' = i
              /\ yc' = r.yc
              /\ size' = r.size
              /\ oldsize' = 2 * r.size
    /\ count' = 0
    /\ dcount' = 0
    /\ pc' = "loop"
    /\ UNCHANGED <<cfg, x, dx, delta, accepted>>

\* One iteration of the while loop
LoopIter ==
    /\ pc = "loop"
    /\ LoopGuard
    /\ \E i \in Interior(N), z \in NormalSamples :
          \E r \in {niterate(x, y, N, dx, delta, i, z)} :
              /\ y' = r.y
              /\ changed' = r.changed
              /\ ix' = i
              /\ yc' = r.yc
              /\ delta' = DeltaAfter(r.changed, r.size)
              /\ oldsize' = IF r.changed THEN size ELSE oldsize
              /\ size' = IF r.changed THEN r.size ELSE size
              /\ dcount' = DcountAfter(r.changed, r.size)
              /\ accepted' = (accepted \/ r.changed)
    /\ count' = count + 1
    /\ UNCHANGED <<cfg, x, dx, pc>>

\* The guard of the while loop is false
LoopExit ==
    /\ pc = "loop"
    /\ ~LoopGuard
    /\ pc' = "done"
    /\ UNCHANGED <<cfg, x, y, dx, delta, changed, ix, yc, size, oldsize, count, dcount, accepted>>

Next == FirstStep \/ LoopIter \/ LoopExit

Spec == Init /\ [][Next]_vars

---------------------------------------------------------------------------
(* Runs under any configuration, the ones section 7 of the specification   *)
(* calls invalid included: N < 3, x0 >= xf, iterlimit <= 0, delta <= 0      *)

\* delta = 0
ZeroDelta == [num |-> 0, den |-> 1]

AnyConfigurations ==
    [N : {2, NPts}, xf : {x0, XEnd}, delta : {ZeroDelta, InitialDelta},
     iterlimit : {0, 1, 2}]

InitCfg == \E c \in AnyConfigurations : InitWith(c)

\* choice(range(1,N-1)) raises on an empty range
FirstStepFails ==
    /\ pc = "preloop"
    /\ N < 3
    /\ pc' = "error"
    /\ UNCHANGED <<cfg, x, y, dx, delta, changed, ix, yc, size, oldsize, count, dcount, accepted>>

NextCfg == FirstStep \/ FirstStepFails \/ LoopIter \/ LoopExit

SpecCfg == InitCfg /\ [][NextCfg]_vars

---------------------------------------------------------------------------
(* Vocabulary of the claims *)

\* The loop has been entered: the call of line 150 has returned
InRun == pc \in {"loop", "done"}

\* This step is a call of niterate: the one of line 150 or one of line 157
StepCall == pc # "done" /\ pc' = "loop"

\* This step is one iteration of the while loop
Iteration == pc = "loop" /\ pc' = "loop"

\* The stopping condition, as the specification words it
Stop == 5 * dcount >= iterlimit \/ count >= iterlimit

\* The local optical path length of the trajectory ys at index i, with v at i
LocalOPL(ys, i, v) == OPL(x, ys[i - 1], v, ys[i + 1], dx, i)

---------------------------------------------------------------------------
\* The number of steps the run can still take, at most
Rank == IF pc = "preloop" THEN iterlimit + 2
        ELSE IF pc = "loop" THEN iterlimit - count + 1 ELSE 0

\* C1: under every iteration cap and whatever the steps accept or reject,
\* the relaxation loop terminates within iteration_cap iterations: each
\* iteration adds exactly one to the iteration counter, the counter never
\* exceeds the cap (at the exit in particular), every step of the run brings
\* the exit nearer, and the run is never stuck before the exit.
C1_Termination ==
    /\ [][Iteration => count' = count + 1]_vars
    /\ [](count <= iterlimit)
    /\ [](Rank >= 0 /\ (Rank = 0 <=> pc = "done"))
    /\ [][Rank' < Rank]_vars
    /\ [](pc # "done" => ENABLED <<Next>>_vars)

C1_Witness == pc = "done" /\ count = iterlimit /\ count = MaxIter

\* C2: in every state of the run, x is the array line 58 built and y[0] and
\* y[N-1] are y0 and yf; a step changes y at most at the interior index it
\* picked.
C2_FixedArrays ==
    /\ [](/\ x = [i \in 0 .. (N - 1) |-> linspace(x0, xf, N, i)]
          /\ y[0] = y0
          /\ y[N - 1] = yf)
    /\ [][/\ x' = x
          /\ \A i \in 0 .. (N - 1) :
                y'[i] # y[i] => (i = ix' /\ 1 <= i /\ i <= N - 2)]_vars

C2_Witness == pc = "done" /\ accepted /\ changed /\ count >= 2

\* C3: for every call of the step function, the proposal is committed if
\* and only if its local optical path length at the chosen index is strictly
\* less than the old one; committed, the local length measured on the new
\* trajectory is strictly less than before; otherwise the trajectory is
\* unchanged and the local length is the same.
C3_NonWorsening ==
    [][StepCall =>
        LET i   == ix'
            opi == LocalOPL(y, i, y[i])
            opf == LocalOPL(y, i, yc')
            opn == LocalOPL(y', i, y'[i])
        IN  /\ changed' <=> (opf < opi)
            /\ changed' => (y' = [y EXCEPT ![i] = yc'] /\ opn < opi)
            /\ ~changed' => (y' = y /\ opn = opi)
            /\ opn <= opi]_vars

C3_Witness == pc = "loop" /\ count >= 1 /\ changed /\ yc = y[ix]

\* C4: whenever the guard of the loop is evaluated, the loop stops if
\* stagnation_counter >= 0.2 * iteration_cap or iteration_counter >=
\* iteration_cap, and runs one more iteration otherwise; at the first
\* evaluation it runs an iteration.
C4_StoppingCondition ==
    /\ [][pc = "loop" =>
            IF Stop THEN pc' = "done" /\ count' = count
                    ELSE pc' = "loop" /\ count' = count + 1]_vars
    /\ [](pc = "loop" /\ count = 0 => ~Stop)

C4_Witness == pc = "done" /\ count < iterlimit /\ 5 * dcount >= iterlimit

\* C6: an iteration of the loop whose step is not accepted changes nothing
\* but the iteration counter, which grows by one.
C6_RejectedFrame ==
    [][(Iteration /\ ~changed') =>
        /\ y' = y
        /\ delta' = delta
        /\ size' = size
        /\ oldsize' = oldsize
        /\ dcount' = dcount
        /\ count' = count + 1
        /\ x' = x /\ dx' = dx /\ cfg' = cfg]_vars

C6_Witness == pc = "loop" /\ count >= 2 /\ ~changed /\ accepted /\ dcount = 0

\* C7: the stagnation counter grows by exactly one in an accepted iteration
\* whose improvement (the metric recorded before it minus the new metric) is
\* below 1e-5, is unchanged by every other step, and never decreases.
C7_CumulativeStagnation ==
    [][/\ Iteration =>
             dcount' = IF changed' /\ InvEps * (size - size') < 1
                       THEN dcount + 1 ELSE dcount
       /\ ~Iteration => dcount' = dcount
       /\ dcount' >= dcount]_vars

C7_Witness == pc = "loop" /\ dcount >= 1 /\ changed /\ oldsize - size >= 1

\* C8: as long as no proposal has been accepted inside the loop, delta has
\* its initial value and the stagnation counter is 0; a loop that ends so
\* ends with the iteration counter equal to the cap.
C8_NeverAccepted ==
    (InRun /\ ~accepted) =>
        /\ delta = InitialDelta
        /\ dcount = 0
        /\ pc = "done" => count = iterlimit

C8_Witness == pc = "done" /\ ~accepted /\ count = MaxIter

C10_SizeIsMetric ==
    pc = "loop" =>
        /\ size = SumAbsDiff(y, 0, N - 1)
        /\ accepted => delta.num * 5 * N = 2 * size * delta.den

C10_Witness == pc = "loop" /\ accepted /\ ~changed /\ count >= 2 /\ y # [y EXCEPT ![ix] = yc]

---------------------------------------------------------------------------
\* InvalidConfiguration of section 7
InvalidConfiguration ==
    \/ N < 3
    \/ x0 >= xf
    \/ iterlimit <= 0
    \/ cfg.delta.num <= 0

\* C5: an invalid configuration (N < 3, x0 >= xf, iteration_cap <= 0 or
\* delta <= 0) ends the run in an error before the step function has
\* returned once: the run never reaches the loop.
C5_FailFast == InvalidConfiguration => pc \in {"preloop", "error"}

====
